---- MODULE Spec2Model ----
(***************************************************************************)
(* LogEvent (lib/shared/src/event/log_event/mod.rs): the root container of *)
(* a structured event, a BTreeMap<String, Value> addressed by lookups made *)
(* of Field, Index and Coalesce segments.                                  *)
(*                                                                         *)
(* The root-level operations get, get_mut, contains, insert, remove and    *)
(* entry are translated from mod.rs.  The operations of Value that they    *)
(* delegate to (Value::get, Value::insert, Value::remove) and the lookup   *)
(* validity check live in other files of the crate; they are modelled from *)
(* the design document (sections 4.3 to 4.5) and carry the prefix "v".     *)
(***************************************************************************)
EXTENDS Integers, Sequences, FiniteSets, TLC

VARIABLES fields, op, lookup, value, prune, retval, before, steps,
          start, target, inserted, returned, populated

vars == <<fields, op, lookup, value, prune, retval, before, steps,
          start, target, inserted, returned, populated>>

(***************************************************************************)
(* Bounds of the model.                                                    *)
(***************************************************************************)
\* Number of operations applied to one event.
MaxOps == 3
\* Largest array index a lookup addresses.
MaxIndex == 1

(***************************************************************************)
(* Values.  A Value is a record tagged by t: the scalars Null and Integer, *)
(* Map (m: a function from a finite set of names to Values) and Array (a:  *)
(* a sequence of Values, element i of the code at position i + 1).         *)
(* Option<Value>: None is NONE, Some(v) is v itself.                       *)
(***************************************************************************)
NONE == [t |-> "None"]

NullV == [t |-> "Null"]

IntV(n) == [t |-> "Integer", v |-> n]

EmptyFields == [x \in {} |-> NullV]

MapV(m) == [m |-> m, t |-> "Map"]

ArrayV(a) == [a |-> a, t |-> "Array"]

IsMap(v) == v.t = "Map"

IsArray(v) == v.t = "Array"

IsSome(r) == r.t # "None"

\* What contains and entry return: a bool, and the kind of the entry or of
\* the error.
BoolR(b) == [b |-> b, t |-> "Bool"]

EntryR(e) == [e |-> e, t |-> "Entry"]
\* A call that panicked instead of returning.
PanicR == [t |-> "Panic"]
\* What an iterator yields, collected in the order it yields it, and the
\* only_leaves it was made with.
KeysR(ks, only_leaves) == [ks |-> ks, leaves |-> only_leaves, t |-> "Keys"]
\* The same for an iterator of (lookup, value) pairs, each [l |-> , v |-> ].
PairsR(ps, only_leaves) == [leaves |-> only_leaves, ps |-> ps, t |-> "Pairs"]

\* BTreeMap::insert / remove on the underlying function.
\* An insertion that keeps the value of a key that is present.
map_put_if_absent(m, k, v) ==
    [x \in (DOMAIN m) \cup {k} |-> IF x \in DOMAIN m THEN m[x] ELSE v]

MapPut(m, k, v) == [x \in (DOMAIN m) \cup {k} |-> IF x = k THEN v ELSE m[x]]

\* A removal that empties the map.
map_clear(m, k) == [x \in {} |-> m[x]]

MapDel(m, k) == [x \in (DOMAIN m) \ {k} |-> m[x]]

MapGet(m, k) == IF k \in DOMAIN m THEN m[k] ELSE NONE

\* Vec::remove(i), Vec::resize(n, Null), element replacement (i zero-based).
ArrDel(a, i) == SubSeq(a, 1, i) \o SubSeq(a, i + 2, Len(a))

ArrResize(a, n) == IF n > Len(a) THEN a \o [j \in 1..(n - Len(a)) |-> NullV] ELSE a

ArrSet(a, i, v) == [a EXCEPT ![i + 1] = v]

\* Value::is_empty for containers: a Map or Array without content.
IsEmptyContainer(v) ==
    \/ IsMap(v) /\ DOMAIN v.m = {}
    \/ IsArray(v) /\ Len(v.a) = 0

(***************************************************************************)
(* Segments and lookups.  A lookup is a sequence of segments; a Coalesce   *)
(* segment holds a sequence of alternatives, each a sequence of segments.  *)
(***************************************************************************)
Field(n) == [k |-> "Field", name |-> n]

Index(i) == [i |-> i, k |-> "Index"]

Coalesce(alts) == [alts |-> alts, k |-> "Coalesce"]

\* Lookup::try_from(sub_segment) succeeds on a lookup with at least one segment.
IsValid(segments) == Len(segments) > 0

Min(S) == CHOOSE i \in S : \A j \in S : i <= j

(***************************************************************************)
(* Value::get, Value::contains, Value::insert and Value::remove: the       *)
(* recursive descent below the root (design document, sections 4.3, 4.4    *)
(* and 4.5).  Each mirrors the root operation one level lower, generalised *)
(* over Map and Array nodes.                                               *)
(***************************************************************************)
RECURSIVE vget(_, _)
RECURSIVE vinsert(_, _, _)
RECURSIVE vremove(_, _, _)
RECURSIVE first_segment_value(_)

\* The first alternative that is invalid or whose candidate lookup is present
\* (present = TRUE) or vacant (present = FALSE) below node; 0 when there is none.
vneedle(node, alts, rest, present) ==
    LET hit == {i \in 1..Len(alts) :
                   \/ ~IsValid(alts[i])
                   \/ IsSome(vget(node, alts[i] \o rest)) = present}
    IN  IF hit = {} THEN 0 ELSE Min(hit)

vget(node, path) ==
    IF path = <<>> THEN node
    ELSE LET seg  == Head(path)
             rest == Tail(path)
         IN  CASE seg.k = "Coalesce" ->
                    LET j == vneedle(node, seg.alts, rest, TRUE)
                    IN  IF j = 0 \/ ~IsValid(seg.alts[j]) THEN NONE
                        ELSE vget(node, seg.alts[j] \o rest)
               [] seg.k = "Field" ->
                    IF IsMap(node) /\ seg.name \in DOMAIN node.m
                    THEN vget(node.m[seg.name], rest)
                    ELSE NONE
               [] seg.k = "Index" ->
                    IF IsArray(node) /\ seg.i < Len(node.a)
                    THEN vget(node.a[seg.i + 1], rest)
                    ELSE NONE

vcontains(node, path) == IsSome(vget(node, path))

\* A decision that ignores the alternatives and creates a Map.
first_segment_always_map(set) == MapV(EmptyFields)

\* The container insert creates for an absent slot when the next segment is a
\* Coalesce: decided by the first segment of its first alternative, followed
\* through nested coalesces; NONE when there is no such segment.
first_segment_value(set) ==
    IF Len(set) = 0 \/ Len(set[1]) = 0 THEN NONE
    ELSE LET s == set[1][1]
         IN  CASE s.k = "Field"    -> MapV(EmptyFields)
               [] s.k = "Index"    -> ArrayV(<<>>)
               [] s.k = "Coalesce" -> first_segment_value(s.alts)

\* An insert that creates a Map whatever the next segment is.
next_value_always_map(working_lookup) == MapV(EmptyFields)

\* The container insert creates for an absent slot, from the next segment of
\* the (non-empty) remaining lookup.
next_value(working_lookup) ==
    LET s == working_lookup[1]
    IN  CASE s.k = "Index"    -> ArrayV(<<>>)
          [] s.k = "Field"    -> MapV(EmptyFields)
          [] s.k = "Coalesce" -> first_segment_value(s.alts)

\* Value::insert: [n |-> the node afterwards, r |-> the returned Option].
vinsert(node, path, v) ==
    IF path = <<>> THEN [n |-> v, r |-> node]
    ELSE LET seg  == Head(path)
             rest == Tail(path)
             fail == [n |-> node, r |-> NONE]
         IN  CASE node.t = "Integer" -> fail
               [] node.t # "Integer" /\ seg.k = "Coalesce" ->
                    LET j == vneedle(node, seg.alts, rest, FALSE)
                    IN  IF j = 0 \/ ~IsValid(seg.alts[j]) THEN fail
                        ELSE vinsert(node, seg.alts[j] \o rest, v)
               [] node.t = "Null" /\ seg.k = "Field" ->
                    [n |-> vinsert(MapV(EmptyFields), path, v).n, r |-> NONE]
               [] node.t = "Null" /\ seg.k = "Index" ->
                    [n |-> vinsert(ArrayV(<<>>), path, v).n, r |-> NONE]
               [] node.t = "Map" /\ seg.k = "Field" ->
                    IF rest = <<>>
                    THEN [n |-> MapV(MapPut(node.m, seg.name, v)),
                          r |-> MapGet(node.m, seg.name)]
                    ELSE LET nv == next_value(rest)
                         IN  IF nv = NONE THEN fail
                             ELSE LET child == IF seg.name \in DOMAIN node.m
                                               THEN node.m[seg.name] ELSE nv
                                      sub   == vinsert(child, rest, v)
                                  IN  [n |-> MapV(MapPut(node.m, seg.name, sub.n)),
                                       r |-> sub.r]
               [] node.t = "Array" /\ seg.k = "Index" ->
                    IF seg.i < Len(node.a)
                    THEN LET sub == vinsert(node.a[seg.i + 1], rest, v)
                         IN  [n |-> ArrayV(ArrSet(node.a, seg.i, sub.n)), r |-> sub.r]
                    ELSE IF rest = <<>>
                    THEN [n |-> ArrayV(ArrResize(node.a, seg.i) \o <<v>>), r |-> NONE]
                    ELSE LET nv == next_value(rest)
                         IN  IF nv = NONE THEN fail
                             ELSE LET sub == vinsert(nv, rest, v)
                                  IN  [n |-> ArrayV(ArrResize(node.a, seg.i) \o <<sub.n>>),
                                       r |-> sub.r]
               [] OTHER -> fail

\* The empty sentinel: with prune set, a container emptied by the removal is
\* replaced by Null, which the level above recognises and deletes.
sentinel(node, prune_flag) ==
    IF prune_flag /\ IsEmptyContainer(node) THEN NullV ELSE node

\* Value::remove: [n |-> the node afterwards, r |-> the returned Option].
vremove(node, path, prune_flag) ==
    IF path = <<>> THEN [n |-> node, r |-> NONE]
    ELSE LET seg  == Head(path)
             rest == Tail(path)
             miss == [n |-> node, r |-> NONE]
             res ==
               CASE seg.k = "Coalesce" ->
                      LET j == vneedle(node, seg.alts, rest, TRUE)
                      IN  IF j = 0 \/ ~IsValid(seg.alts[j]) THEN miss
                          ELSE vremove(node, seg.alts[j] \o rest, prune_flag)
                 [] seg.k = "Field" /\ IsMap(node) /\ seg.name \in DOMAIN node.m ->
                      IF rest = <<>>
                      THEN [n |-> MapV(MapDel(node.m, seg.name)), r |-> node.m[seg.name]]
                      ELSE LET sub == vremove(node.m[seg.name], rest, prune_flag)
                           IN  IF prune_flag /\ sub.n = NullV
                               THEN [n |-> MapV(MapDel(node.m, seg.name)), r |-> sub.r]
                               ELSE [n |-> MapV(MapPut(node.m, seg.name, sub.n)), r |-> sub.r]
                 [] seg.k = "Index" /\ IsArray(node) /\ seg.i < Len(node.a) ->
                      IF rest = <<>>
                      THEN [n |-> ArrayV(ArrDel(node.a, seg.i)), r |-> node.a[seg.i + 1]]
                      ELSE LET sub == vremove(node.a[seg.i + 1], rest, prune_flag)
                           IN  IF prune_flag /\ sub.n = NullV
                               THEN [n |-> ArrayV(ArrDel(node.a, seg.i)), r |-> sub.r]
                               ELSE [n |-> ArrayV(ArrSet(node.a, seg.i, sub.n)), r |-> sub.r]
                 [] OTHER -> miss
         IN  [n |-> sentinel(res.n, prune_flag), r |-> res.r]

(***************************************************************************)
(* LogEvent: the root operations, from mod.rs.  f is self.fields, a        *)
(* function from the names present to their Values.  Every lookup handed   *)
(* to them is non-empty (pop_front().unwrap()).                            *)
(***************************************************************************)
RECURSIVE get(_, _)
RECURSIVE get_mut(_, _)
RECURSIVE insert(_, _, _)
RECURSIVE remove(_, _, _)

\* A contains for which a stored Null is absent.
contains_non_null(f, working_lookup) ==
    IsSome(get(f, working_lookup)) /\ get(f, working_lookup) # NullV

\* LogEvent::contains: get(lookup).is_some().
contains(f, working_lookup) == IsSome(get(f, working_lookup))

\* The needle loop of the Coalesce arms: the alternatives are visited in
\* order; an alternative that is no valid lookup ends the operation
\* (try_from(..).ok()?), and the first one whose candidate lookup (the
\* alternative followed by the rest) is contained (present = TRUE) or not
\* contained (present = FALSE) becomes the needle.  0: no needle.
needle(f, sub_segments, working_lookup, present) ==
    LET hit == {i \in 1..Len(sub_segments) :
                   \/ ~IsValid(sub_segments[i])
                   \/ contains(f, sub_segments[i] \o working_lookup) = present}
    IN  IF hit = {} THEN 0 ELSE Min(hit)

\* A reader taking, as insert does, the first alternative that is not contained.
read_needle_vacant(f, sub_segments, working_lookup) ==
    needle(f, sub_segments, working_lookup, FALSE)

\* A reader taking the last alternative that is contained instead of the first.
read_needle_last(f, sub_segments, working_lookup) ==
    LET hit == {i \in 1..Len(sub_segments) :
                   \/ ~IsValid(sub_segments[i])
                   \/ contains(f, sub_segments[i] \o working_lookup)}
    IN  IF hit = {} THEN 0 ELSE CHOOSE i \in hit : \A j \in hit : j <= i

\* get, get_mut and remove break at the first alternative that is contained.
read_needle(f, sub_segments, working_lookup) ==
    needle(f, sub_segments, working_lookup, TRUE)

\* insert taking, as the readers do, the first alternative that is contained.
insert_needle_present(f, sub_segments, working_lookup) ==
    needle(f, sub_segments, working_lookup, TRUE)

\* insert falling back on the first alternative when none is vacant.
insert_needle_overwrites(f, sub_segments, working_lookup) ==
    IF needle(f, sub_segments, working_lookup, FALSE) = 0 /\ Len(sub_segments) > 0
    THEN 1
    ELSE needle(f, sub_segments, working_lookup, FALSE)

\* insert breaks at the first alternative that is not contained.
insert_needle(f, sub_segments, working_lookup) ==
    needle(f, sub_segments, working_lookup, FALSE)

\* LogEvent::get.
get(f, lookup_) ==
    LET this_segment   == Head(lookup_)
        working_lookup == Tail(lookup_)
    IN  CASE this_segment.k = "Coalesce" ->
               LET j == read_needle(f, this_segment.alts, working_lookup)
               IN  IF j = 0 \/ ~IsValid(this_segment.alts[j]) THEN NONE
                   ELSE get(f, this_segment.alts[j] \o working_lookup)
          [] this_segment.k = "Field" ->
               IF Len(working_lookup) = 0
               THEN MapGet(f, this_segment.name)
               ELSE IF this_segment.name \in DOMAIN f
                    THEN vget(f[this_segment.name], working_lookup)
                    ELSE NONE
          [] this_segment.k = "Index" -> NONE

\* LogEvent::get_mut: the same dispatch; the borrow is modelled by the value
\* it points at.
get_mut(f, lookup_) ==
    LET this_segment   == Head(lookup_)
        working_lookup == Tail(lookup_)
    IN  CASE this_segment.k = "Coalesce" ->
               LET j == read_needle(f, this_segment.alts, working_lookup)
               IN  IF j = 0 \/ ~IsValid(this_segment.alts[j]) THEN NONE
                   ELSE get_mut(f, this_segment.alts[j] \o working_lookup)
          [] this_segment.k = "Field" ->
               IF Len(working_lookup) = 0
               THEN MapGet(f, this_segment.name)
               ELSE IF this_segment.name \in DOMAIN f
                    THEN vget(f[this_segment.name], working_lookup)
                    ELSE NONE
          [] this_segment.k = "Index" -> NONE

\* An Index arm of insert that stores the value in a field of the root.
insert_index_first_stores(f, lookup_, v) ==
    [f |-> MapPut(f, "a", v), r |-> NONE]

\* insert, Index arm: the lookup is reported and nothing is inserted.
insert_index_first(f, lookup_, v) == [f |-> f, r |-> NONE]

\* An insert that puts a fresh container over a field that exists.
insert_over_existing(f, lookup_, v) ==
    LET this_segment   == Head(lookup_)
        working_lookup == Tail(lookup_)
        none           == [f |-> f, r |-> NONE]
    IN  CASE this_segment.k = "Coalesce" ->
               LET j == insert_needle(f, this_segment.alts, working_lookup)
               IN  IF j = 0 \/ ~IsValid(this_segment.alts[j]) THEN none
                   ELSE insert(f, this_segment.alts[j] \o working_lookup, v)
          [] this_segment.k = "Field" ->
               IF Len(working_lookup) = 0
               THEN [f |-> MapPut(f, this_segment.name, v),
                     r |-> MapGet(f, this_segment.name)]
               ELSE LET nv == next_value(working_lookup)
                    IN  IF nv = NONE THEN none
                        ELSE LET sub == vinsert(nv, working_lookup, v)
                             IN  [f |-> MapPut(f, this_segment.name, sub.n),
                                  r |-> sub.r]
          [] this_segment.k = "Index" -> insert_index_first(f, lookup_, v)

\* LogEvent::insert: [f |-> the fields afterwards, r |-> the returned Option].
insert(f, lookup_, v) ==
    LET this_segment   == Head(lookup_)
        working_lookup == Tail(lookup_)
        none           == [f |-> f, r |-> NONE]
    IN  CASE this_segment.k = "Coalesce" ->
               LET j == insert_needle(f, this_segment.alts, working_lookup)
               IN  IF j = 0 \/ ~IsValid(this_segment.alts[j]) THEN none
                   ELSE insert(f, this_segment.alts[j] \o working_lookup, v)
          [] this_segment.k = "Field" ->
               IF Len(working_lookup) = 0
               THEN [f |-> MapPut(f, this_segment.name, v),
                     r |-> MapGet(f, this_segment.name)]
               ELSE LET nv == next_value(working_lookup)
                    IN  IF nv = NONE THEN none
                        ELSE LET child == IF this_segment.name \in DOMAIN f
                                          THEN f[this_segment.name] ELSE nv
                                 sub   == vinsert(child, working_lookup, v)
                             IN  [f |-> MapPut(f, this_segment.name, sub.n),
                                  r |-> sub.r]
          [] this_segment.k = "Index" -> insert_index_first(f, lookup_, v)

\* A remove without the prune check.
prune_check_never(f, name, prune_flag) == f

\* The prune check of remove: with prune set, a field left holding Null is
\* removed.
prune_check(f, name, prune_flag) ==
    IF prune_flag /\ MapGet(f, name) = NullV THEN MapDel(f, name) ELSE f

\* remove reading the field at the end of the lookup without removing it.
remove_terminus_keeps(f, name, prune_flag) ==
    [f |-> prune_check(f, name, prune_flag), r |-> MapGet(f, name)]

\* remove, Field arm at the end of the lookup: the field is removed and its
\* value returned.
remove_terminus(f, name, prune_flag) ==
    [f |-> prune_check(MapDel(f, name), name, prune_flag), r |-> MapGet(f, name)]

\* A descending arm that prunes whatever the caller's flag says.
remove_descend_prunes(f, name, working_lookup, prune_flag) ==
    IF name \in DOMAIN f
    THEN LET sub == vremove(f[name], working_lookup, TRUE)
         IN  [f |-> prune_check(MapPut(f, name, sub.n), name, TRUE), r |-> sub.r]
    ELSE [f |-> prune_check(f, name, TRUE), r |-> NONE]

\* remove, Field arm with segments left: the removal is delegated to the
\* field's value, then the prune check is made on the field.
remove_descend(f, name, working_lookup, prune_flag) ==
    IF name \in DOMAIN f
    THEN LET sub == vremove(f[name], working_lookup, prune_flag)
         IN  [f |-> prune_check(MapPut(f, name, sub.n), name, prune_flag), r |-> sub.r]
    ELSE [f |-> prune_check(f, name, prune_flag), r |-> NONE]

\* LogEvent::remove: [f |-> the fields afterwards, r |-> the returned Option].
remove(f, lookup_, prune_flag) ==
    LET this_segment   == Head(lookup_)
        working_lookup == Tail(lookup_)
        none           == [f |-> f, r |-> NONE]
    IN  CASE this_segment.k = "Coalesce" ->
               LET j == read_needle(f, this_segment.alts, working_lookup)
               IN  IF j = 0 \/ ~IsValid(this_segment.alts[j]) THEN none
                   ELSE remove(f, this_segment.alts[j] \o working_lookup, prune_flag)
          [] this_segment.k = "Field" ->
               IF Len(working_lookup) = 0
               THEN remove_terminus(f, this_segment.name, prune_flag)
               ELSE remove_descend(f, this_segment.name, working_lookup, prune_flag)
          [] this_segment.k = "Index" -> none

\* LogEvent::entry.  The result is the kind of the entry or of the error; the
\* fields are only read (BTreeMap::entry and Entry::into_mut insert nothing).
\* A first segment that is not a Field reaches unreachable!().
\* A walker that reports a value that is no map as a missing field.
RECURSIVE entry_walk_untyped(_, _, _)
entry_walk_untyped(map, name, walker) ==
    IF Len(walker) = 0
    THEN IF name \in DOMAIN map THEN "Occupied" ELSE "Vacant"
    ELSE LET segment == Head(walker)
         IN  IF segment.k = "Field"
             THEN IF name \in DOMAIN map /\ IsMap(map[name])
                  THEN entry_walk_untyped(map[name].m, segment.name, Tail(walker))
                  ELSE "ErrDidNotExist"
             ELSE "ErrArrayIndices"

RECURSIVE entry_walk(_, _, _)
entry_walk(map, name, walker) ==
    IF Len(walker) = 0
    THEN IF name \in DOMAIN map THEN "Occupied" ELSE "Vacant"
    ELSE LET segment == Head(walker)
         IN  IF segment.k = "Field"
             THEN IF name \in DOMAIN map
                  THEN IF IsMap(map[name])
                       THEN entry_walk(map[name].m, segment.name, Tail(walker))
                       ELSE "ErrNonMap"
                  ELSE "ErrDidNotExist"
             ELSE "ErrArrayIndices"

\* An entry that, like insert, creates the fields it does not find.
entry_vivify(f, lookup_) ==
    IF Len(lookup_) > 0 /\ Head(lookup_).k = "Field"
    THEN LET e == entry_walk(f, Head(lookup_).name, Tail(lookup_))
         IN  [f |-> IF e = "ErrDidNotExist" THEN insert(f, lookup_, NullV).f ELSE f,
              r |-> EntryR(e)]
    ELSE [f |-> f, r |-> EntryR("Panic")]

\* LogEvent::entry: [f |-> the fields afterwards, r |-> the kind of result].
entry(f, lookup_) ==
    IF Len(lookup_) > 0 /\ Head(lookup_).k = "Field"
    THEN [f |-> f, r |-> EntryR(entry_walk(f, Head(lookup_).name, Tail(lookup_)))]
    ELSE [f |-> f, r |-> EntryR("Panic")]

\* Option::expect: the value, or a panic on None.
expect(r) == IF IsSome(r) THEN r ELSE PanicR

\* impl Index for LogEvent: event[key].
index(f, key) == expect(get(f, key))

\* impl IndexMut for LogEvent: &mut event[key].
index_mut(f, key) == expect(get_mut(f, key))

(***************************************************************************)
(* keys: the lookups available in the event.  The root iterates its fields *)
(* in the order of the BTreeMap and flattens what Value::lookups yields    *)
(* for each; Value::lookups is in another file and is modelled from the    *)
(* design document (section 4.6).                                          *)
(***************************************************************************)
RECURSIVE Flatten(_)
RECURSIVE vlookups(_, _, _)
RECURSIVE vpairs(_, _, _)

\* The field names of the model, in the order of String (BTreeMap iteration).
KeyOrder == <<"a", "b", "c">>

\* The names of S in that order.
SortedKeys(S) == SelectSeq(KeyOrder, LAMBDA k : k \in S)

\* A flatten that stops after the first inner iterator.
flatten_first(ss) == IF Len(ss) = 0 THEN <<>> ELSE Head(ss)

\* Iterator::flatten: the concatenation of a sequence of sequences.
Flatten(ss) == IF Len(ss) = 0 THEN <<>> ELSE Head(ss) \o Flatten(Tail(ss))

\* Value::lookups: pre-order; the lookup of a container is yielded before
\* those of its children unless only_leaves is set, Map children in key order
\* and Array children in index order; the lookup of a scalar is always
\* yielded.
vlookups(v, prefix, only_leaves) ==
    LET this == IF only_leaves THEN <<>> ELSE <<prefix>>
    IN  IF IsMap(v)
        THEN LET ks == SortedKeys(DOMAIN v.m)
             IN  this \o Flatten([i \in 1..Len(ks) |->
                          vlookups(v.m[ks[i]], Append(prefix, Field(ks[i])), only_leaves)])
        ELSE IF IsArray(v)
        THEN this \o Flatten([i \in 1..Len(v.a) |->
                          vlookups(v.a[i], Append(prefix, Index(i - 1)), only_leaves)])
        ELSE <<prefix>>

\* keys handing Value::lookups only_leaves = false whatever the caller asked.
keys_every_mode_full(f, only_leaves) ==
    LET ks == SortedKeys(DOMAIN f)
    IN  Flatten([i \in 1..Len(ks) |->
            vlookups(f[ks[i]], <<Field(ks[i])>>, FALSE)])

\* keys iterating the fields in descending order.
keys_descending(f, only_leaves) ==
    LET ks == SortedKeys(DOMAIN f)
    IN  Flatten([i \in 1..Len(ks) |->
            vlookups(f[ks[Len(ks) + 1 - i]], <<Field(ks[Len(ks) + 1 - i])>>, only_leaves)])

\* LogEvent::keys.
keys(f, only_leaves) ==
    LET ks == SortedKeys(DOMAIN f)
    IN  Flatten([i \in 1..Len(ks) |->
            vlookups(f[ks[i]], <<Field(ks[i])>>, only_leaves)])

\* Value::pairs: the traversal of Value::lookups, each lookup yielded with
\* the value it reaches.
vpairs(v, prefix, only_leaves) ==
    LET this == IF only_leaves THEN <<>> ELSE << [l |-> prefix, v |-> v] >>
    IN  IF IsMap(v)
        THEN LET ks == SortedKeys(DOMAIN v.m)
             IN  this \o Flatten([i \in 1..Len(ks) |->
                          vpairs(v.m[ks[i]], Append(prefix, Field(ks[i])), only_leaves)])
        ELSE IF IsArray(v)
        THEN this \o Flatten([i \in 1..Len(v.a) |->
                          vpairs(v.a[i], Append(prefix, Index(i - 1)), only_leaves)])
        ELSE << [l |-> prefix, v |-> v] >>

\* pairs as the pairs of a map: the fields and their values, without descent.
pairs_top_level(f, only_leaves) ==
    LET ks == SortedKeys(DOMAIN f)
    IN  [i \in 1..Len(ks) |-> [l |-> <<Field(ks[i])>>, v |-> f[ks[i]]]]

\* LogEvent::pairs.
pairs(f, only_leaves) ==
    LET ks == SortedKeys(DOMAIN f)
    IN  Flatten([i \in 1..Len(ks) |->
            vpairs(f[ks[i]], <<Field(ks[i])>>, only_leaves)])

(***************************************************************************)
(* The lookups and values the operations are called with.                  *)
(***************************************************************************)
Values == {NullV, IntV(1), IntV(2)}

\* a, b, a.b, b.c, a.b.c
FieldLookups ==
    { <<Field("a")>>, <<Field("b")>>,
      <<Field("a"), Field("b")>>,
      <<Field("b"), Field("c")>>,
      <<Field("a"), Field("b"), Field("c")>> }

\* a[i], a[i].b
IndexLookups ==
    { <<Field("a"), Index(i)>> : i \in 0..MaxIndex }
      \cup { <<Field("a"), Index(i), Field("b")>> : i \in 0..MaxIndex }

\* (a | b), (a | b).c, a.(b | c), a.(b | c.b).c
CoalesceLookups ==
    { <<Coalesce(<< <<Field("a")>>, <<Field("b")>> >>)>>,
      <<Coalesce(<< <<Field("a")>>, <<Field("b")>> >>), Field("c")>>,
      <<Field("a"), Coalesce(<< <<Field("b")>>, <<Field("c")>> >>)>>,
      <<Field("a"), Coalesce(<< <<Field("b")>>, <<Field("c"), Field("b")>> >>), Field("c")>> }

\* [0], [0].a: lookups the root rejects
IndexFirstLookups == { <<Index(0)>>, <<Index(0), Field("a")>> }

\* a.([0] | b), b.(([0] | c) | c), a.(): coalesce groups whose first
\* alternative begins with an Index, with a nested group, or is missing
VivifyLookups ==
    { <<Field("a"), Coalesce(<< <<Index(0)>>, <<Field("b")>> >>)>>,
      <<Field("b"), Coalesce(<< <<Coalesce(<< <<Index(0)>>, <<Field("c")>> >>)>>,
                                <<Field("c")>> >>)>>,
      <<Field("a"), Coalesce(<<>>)>> }

Lookups ==
    FieldLookups \cup IndexLookups \cup CoalesceLookups \cup IndexFirstLookups
        \cup VivifyLookups

(***************************************************************************)
(* The state machine: one event, created empty, and the operations called  *)
(* on it.  op, lookup, value, prune and retval record the last call and    *)
(* before the fields it found.                                             *)
(***************************************************************************)
Init ==
    /\ fields = EmptyFields
    /\ op = "default"
    /\ lookup = <<>>
    /\ value = NullV
    /\ prune = FALSE
    /\ retval = NONE
    /\ before = EmptyFields
    /\ steps = 0
    /\ start = EmptyFields
    /\ target = <<>>
    /\ inserted = <<>>
    /\ returned = <<>>
    /\ populated = EmptyFields

Called(name, l, v, p) ==
    /\ steps < MaxOps
    /\ steps' = steps + 1
    /\ op' = name
    /\ lookup' = l
    /\ value' = v
    /\ prune' = p
    /\ before' = fields
    /\ UNCHANGED <<start, target, inserted, returned, populated>>

Get(l) ==
    /\ Called("get", l, NullV, FALSE)
    /\ retval' = get(fields, l)
    /\ fields' = fields

GetMut(l) ==
    /\ Called("get_mut", l, NullV, FALSE)
    /\ retval' = get_mut(fields, l)
    /\ fields' = fields

Contains(l) ==
    /\ Called("contains", l, NullV, FALSE)
    /\ retval' = BoolR(contains(fields, l))
    /\ fields' = fields

Insert(l, v) ==
    /\ Called("insert", l, v, FALSE)
    /\ LET res == insert(fields, l, v)
       IN  fields' = res.f /\ retval' = res.r

Remove(l, p) ==
    /\ Called("remove", l, NullV, p)
    /\ LET res == remove(fields, l, p)
       IN  fields' = res.f /\ retval' = res.r

Entry(l) ==
    /\ Called("entry", l, NullV, FALSE)
    /\ LET res == entry(fields, l)
       IN  fields' = res.f /\ retval' = res.r

IndexOp(l) ==
    /\ Called("index", l, NullV, FALSE)
    /\ retval' = index(fields, l)
    /\ fields' = fields

IndexMutOp(l) ==
    /\ Called("index_mut", l, NullV, FALSE)
    /\ retval' = index_mut(fields, l)
    /\ fields' = fields

Keys(only_leaves) ==
    /\ Called("keys", <<>>, NullV, FALSE)
    /\ retval' = KeysR(keys(fields, only_leaves), only_leaves)
    /\ fields' = fields

Pairs(only_leaves) ==
    /\ Called("pairs", <<>>, NullV, FALSE)
    /\ retval' = PairsR(pairs(fields, only_leaves), only_leaves)
    /\ fields' = fields

Next ==
    \/ \E l \in Lookups : Get(l)
    \/ \E l \in Lookups : GetMut(l)
    \/ \E l \in Lookups : Contains(l)
    \/ \E l \in Lookups, v \in Values : Insert(l, v)
    \/ \E l \in Lookups, p \in BOOLEAN : Remove(l, p)
    \/ \E l \in Lookups : Entry(l)
    \/ \E only_leaves \in BOOLEAN : Keys(only_leaves)
    \/ \E only_leaves \in BOOLEAN : Pairs(only_leaves)
    \/ \E l \in Lookups : IndexOp(l)
    \/ \E l \in Lookups : IndexMutOp(l)

Spec == Init /\ [][Next]_vars

(***************************************************************************)
(* Vocabulary of the properties.                                           *)
(***************************************************************************)
RECURSIVE AlternativesValid(_)
RECURSIVE FieldFirst(_)
RECURSIVE FirstAlternatives(_)

HasCoalesce(l) == \E i \in 1..Len(l) : l[i].k = "Coalesce"

OnlyFields(l) == \A i \in 1..Len(l) : l[i].k = "Field"

\* Every coalesce group of l, nested ones included, has at least one
\* alternative and no empty alternative.
AlternativesValid(l) ==
    \A i \in 1..Len(l) :
        l[i].k = "Coalesce" =>
            /\ Len(l[i].alts) > 0
            /\ \A j \in 1..Len(l[i].alts) :
                   IsValid(l[i].alts[j]) /\ AlternativesValid(l[i].alts[j])

\* l starts with a Field, or with a Coalesce whose alternatives all do.
FieldFirst(l) ==
    /\ Len(l) > 0
    /\ \/ l[1].k = "Field"
       \/ /\ l[1].k = "Coalesce"
          /\ \A j \in 1..Len(l[1].alts) : FieldFirst(l[1].alts[j])

\* A well-formed lookup into a LogEvent.
WellFormed(l) == FieldFirst(l) /\ AlternativesValid(l)

\* The concrete lookup obtained by taking the first alternative of every
\* coalesce group.
FirstAlternatives(l) ==
    IF Len(l) = 0 THEN <<>>
    ELSE IF l[1].k = "Coalesce"
         THEN FirstAlternatives(l[1].alts[1] \o Tail(l))
         ELSE <<l[1]>> \o FirstAlternatives(Tail(l))

Prefix(l, n) == SubSeq(l, 1, n)

\* Insert can descend along the coalesce-free lookup l: every proper prefix of
\* l that is contained holds the container its next segment addresses.
CanDescend(f, l) ==
    \A n \in 1..(Len(l) - 1) :
        LET at == get(f, Prefix(l, n))
        IN  \/ at = NONE
            \/ l[n + 1].k = "Field" /\ IsMap(at)
            \/ l[n + 1].k = "Index" /\ IsArray(at)

(***************************************************************************)
(* C1.  As stated: after insert(P, V) with P well-formed, get(P) yields V. *)
(* This fails: insert cannot pass through a scalar, and with a coalesce    *)
(* group insert writes the first vacant alternative while get reads the    *)
(* first present one.                                                      *)
(***************************************************************************)
C1_RoundTripAnyLookup ==
    (op = "insert" /\ WellFormed(lookup)) => get(fields, lookup) = value

\* C1 (amended).  After insert(P, V) with P well-formed, get(P) yields V,
\* provided that P has no coalesce group or was not contained before the call,
\* and that, along P with every coalesce group replaced by its first
\* alternative, every proper prefix contained before the call holds a Map
\* where the next segment is a Field and an Array where it is an Index.
C1_RoundTrip ==
    ( /\ op = "insert"
      /\ WellFormed(lookup)
      /\ (~HasCoalesce(lookup) \/ ~contains(before, lookup))
      /\ CanDescend(before, FirstAlternatives(lookup)) )
    => get(fields, lookup) = value

\* An insert through a coalesce group in the middle of the lookup, into an
\* event that already has fields, after which get returns the value.
C1_Witness ==
    /\ op = "insert"
    /\ Len(lookup) = 3
    /\ HasCoalesce(lookup)
    /\ ~contains(before, lookup)
    /\ CanDescend(before, FirstAlternatives(lookup))
    /\ DOMAIN before # {}
    /\ value = IntV(2)
    /\ get(fields, lookup) = IntV(2)

(***************************************************************************)
(* C2.  As stated: remove(P, prune) of a well-formed, contained P returns  *)
(* the value get(P) held, and afterwards get(P) yields nothing and         *)
(* contains(P) is false.  The second half fails: with a coalesce group the *)
(* next present alternative becomes visible, and removing an array element *)
(* moves the later elements down into its index.                           *)
(***************************************************************************)
C2_RemoveThenAbsentAnyLookup ==
    (op = "remove" /\ WellFormed(lookup) /\ contains(before, lookup))
    => /\ retval = get(before, lookup)
       /\ get(fields, lookup) = NONE
       /\ ~contains(fields, lookup)

\* C2 (amended).  remove(P, prune), with either prune value, of a well-formed
\* P that is contained returns the value get(P) held just before; when P is
\* made of Field segments only, get(P) yields nothing and contains(P) is
\* false immediately afterwards.
C2_RemoveThenAbsent ==
    (op = "remove" /\ WellFormed(lookup) /\ contains(before, lookup))
    => /\ retval = get(before, lookup)
       /\ OnlyFields(lookup) =>
              get(fields, lookup) = NONE /\ ~contains(fields, lookup)

\* A removal with prune of a root field that was present while another field
\* stays.
C2_Witness ==
    /\ op = "remove"
    /\ prune
    /\ lookup = <<Field("a")>>
    /\ contains(before, lookup)
    /\ retval = IntV(1)
    /\ DOMAIN fields = {"b"}

(***************************************************************************)
(* Coalesce groups: the candidate lookups of the first group of a lookup.  *)
(***************************************************************************)
FirstCoalesce(l) == Min({i \in 1..Len(l) : l[i].k = "Coalesce"})

Alternatives(l) == l[FirstCoalesce(l)].alts

\* The lookup formed by alternative j of the first coalesce group of l: what
\* precedes the group, the alternative, and the rest of l.
Candidate(l, j) ==
    Prefix(l, FirstCoalesce(l) - 1) \o Alternatives(l)[j]
        \o SubSeq(l, FirstCoalesce(l) + 1, Len(l))

PresentAlternatives(f, l) ==
    {j \in 1..Len(Alternatives(l)) : contains(f, Candidate(l, j))}

VacantAlternatives(f, l) ==
    {j \in 1..Len(Alternatives(l)) : ~contains(f, Candidate(l, j))}

C4_InsertFirstVacantAlways ==
    ( /\ op = "insert"
      /\ WellFormed(lookup)
      /\ HasCoalesce(lookup)
      /\ VacantAlternatives(before, lookup) # {} )
    => get(fields, Candidate(lookup, Min(VacantAlternatives(before, lookup)))) = value

\* C4 (amended).  insert(P, V), P with a coalesce group of which at least one
\* alternative's candidate lookup is not contained, stores V at the first such
\* candidate in declaration order (get of it yields V afterwards), provided
\* every proper prefix of that candidate that is contained holds a Map where
\* the next segment is a Field and an Array where it is an Index.
C4_InsertFirstVacant ==
    ( /\ op = "insert"
      /\ WellFormed(lookup)
      /\ HasCoalesce(lookup)
      /\ VacantAlternatives(before, lookup) # {}
      /\ CanDescend(before,
             FirstAlternatives(Candidate(lookup, Min(VacantAlternatives(before, lookup))))) )
    => get(fields, Candidate(lookup, Min(VacantAlternatives(before, lookup)))) = value

\* An insert through a coalesce group whose first alternative is taken: the
\* value goes to the second, and the first keeps its value.
C4_Witness ==
    /\ op = "insert"
    /\ HasCoalesce(lookup)
    /\ Len(lookup) = 2
    /\ VacantAlternatives(before, lookup) = {2}
    /\ value = IntV(2)
    /\ get(fields, Candidate(lookup, 2)) = IntV(2)
    /\ get(fields, Candidate(lookup, 1)) = IntV(1)

(***************************************************************************)
(* C5.  When every alternative of the coalesce group of P is contained,    *)
(* insert(P, V) returns nothing and leaves the whole event unchanged.      *)
(***************************************************************************)
C5_CoalesceNoOverwrite ==
    ( /\ op = "insert"
      /\ WellFormed(lookup)
      /\ HasCoalesce(lookup)
      /\ VacantAlternatives(before, lookup) = {} )
    => retval = NONE /\ fields = before

\* A third insert through a two-alternative group that the first two filled.
C5_Witness ==
    /\ op = "insert"
    /\ WellFormed(lookup)
    /\ HasCoalesce(lookup)
    /\ VacantAlternatives(before, lookup) = {}
    /\ value = IntV(2)
    /\ get(before, Candidate(lookup, 1)) = IntV(1)
    /\ get(before, Candidate(lookup, 2)) = NullV
    /\ fields = before

(***************************************************************************)
(* The run of the test coalesced_with_nesting, from any event: the event   *)
(* is populated by some inserts; then one lookup with a coalesce group, of *)
(* which no alternative is contained, is inserted once per alternative,    *)
(* then removed (prune = false) once per alternative, then read.  start is *)
(* the event the run found, target the lookup, inserted the values given   *)
(* to insert and returned what the removes returned.                       *)
(***************************************************************************)
\* Number of inserts that populate the event before the run.
SetupOps == 2

\* The lookups of CoalesceLookups and (a | b | c).
OrderLookups ==
    CoalesceLookups
        \cup { <<Coalesce(<< <<Field("a")>>, <<Field("b")>>, <<Field("c")>> >>)>> }

OrderCalled(name, l, v, p) ==
    /\ steps' = steps + 1
    /\ op' = name
    /\ lookup' = l
    /\ value' = v
    /\ prune' = p
    /\ before' = fields
    /\ UNCHANGED populated

OrderSetup(l, v) ==
    /\ target = <<>>
    /\ steps < SetupOps
    /\ Insert(l, v)

OrderFirstInsert(l, v) ==
    /\ target = <<>>
    /\ PresentAlternatives(fields, l) = {}
    /\ OrderCalled("insert", l, v, FALSE)
    /\ LET res == insert(fields, l, v)
       IN  fields' = res.f /\ retval' = res.r
    /\ start' = fields
    /\ target' = l
    /\ inserted' = <<v>>
    /\ returned' = <<>>

OrderNextInsert(v) ==
    /\ target # <<>>
    /\ Len(inserted) < Len(Alternatives(target))
    /\ OrderCalled("insert", target, v, FALSE)
    /\ LET res == insert(fields, target, v)
       IN  fields' = res.f /\ retval' = res.r
    /\ inserted' = Append(inserted, v)
    /\ UNCHANGED <<start, target, returned>>

OrderRemove ==
    /\ target # <<>>
    /\ Len(inserted) = Len(Alternatives(target))
    /\ Len(returned) < Len(Alternatives(target))
    /\ OrderCalled("remove", target, NullV, FALSE)
    /\ LET res == remove(fields, target, FALSE)
       IN  fields' = res.f /\ retval' = res.r /\ returned' = Append(returned, res.r)
    /\ UNCHANGED <<start, target, inserted>>

OrderGet ==
    /\ target # <<>>
    /\ Len(returned) = Len(Alternatives(target))
    /\ op # "get"
    /\ OrderCalled("get", target, NullV, FALSE)
    /\ retval' = get(fields, target)
    /\ fields' = fields
    /\ UNCHANGED <<start, target, inserted, returned>>

OrderNext ==
    \/ \E l \in Lookups, v \in Values : OrderSetup(l, v)
    \/ \E l \in OrderLookups, v \in Values : OrderFirstInsert(l, v)
    \/ \E v \in Values : OrderNextInsert(v)
    \/ OrderRemove
    \/ OrderGet

OrderSpec == Init /\ [][OrderNext]_vars

\* The alternatives of the first coalesce group of l begin with Field
\* segments that differ from one another.
DistinctFieldAlternatives(l) ==
    LET alts == Alternatives(l)
    IN  \A i, j \in 1..Len(alts) :
            /\ alts[i][1].k = "Field"
            /\ (i # j) => (alts[i][1] # alts[j][1])

\* Insert can descend along every candidate lookup of l in f.
Insertable(f, l) ==
    \A i \in 1..Len(Alternatives(l)) :
        CanDescend(f, FirstAlternatives(Candidate(l, i)))

\* What the run has shown so far: while no remove is done, the i-th value
\* inserted is at the i-th candidate; the j-th remove returned the j-th value
\* inserted; after as many removes as alternatives the target is absent.
OrderHolds ==
    /\ (returned = <<>>) =>
           \A i \in 1..Len(inserted) : get(fields, Candidate(target, i)) = inserted[i]
    /\ \A j \in 1..Len(returned) : returned[j] = inserted[j]
    /\ (Len(returned) = Len(Alternatives(target))) => get(fields, target) = NONE

(***************************************************************************)
(* C6.  As stated: from any event in which no alternative of the coalesce  *)
(* lookup P (k alternatives) is contained, the i-th consecutive insert of  *)
(* P populates the i-th alternative, the following removes of P without    *)
(* prune return the inserted values in that order, and after k removes     *)
(* get(P) is absent.  This fails when insert cannot descend along a        *)
(* candidate, e.g. (a | b).c on an event where a holds an integer.         *)
(***************************************************************************)
C6_CoalesceOrderAnyEvent ==
    (target # <<>>) => OrderHolds

\* C6 (amended).  The same, for a lookup whose alternatives begin with
\* different Field segments, from an event in which no alternative is
\* contained and every contained proper prefix of every candidate lookup holds
\* a Map where the next segment is a Field and an Array where it is an Index.
C6_CoalesceOrder ==
    ( /\ target # <<>>
      /\ DistinctFieldAlternatives(target)
      /\ Insertable(start, target) )
    => OrderHolds

\* The run of the test on a non-empty event: a.(b | c.b).c inserted twice,
\* removed twice, and absent at the end.
C6_Witness ==
    /\ target # <<>>
    /\ Len(target) = 3
    /\ DOMAIN start # {}
    /\ Insertable(start, target)
    /\ inserted = <<IntV(1), IntV(2)>>
    /\ returned = inserted
    /\ op = "get"
    /\ retval = NONE

(***************************************************************************)
(* Pruning: the ancestors of a removed lookup.                             *)
(***************************************************************************)
RECURSIVE Resolved(_, _)
RECURSIVE LeftEmpty(_, _, _)

\* The coalesce-free lookup a reader of l follows in f: every coalesce group
\* replaced by its first contained alternative (l is contained in f).
Resolved(f, l) ==
    IF ~HasCoalesce(l) THEN l
    ELSE Resolved(f, Candidate(l, Min(PresentAlternatives(f, l))))

\* The number of entries of a container.
ChildCount(v) ==
    IF IsMap(v) THEN Cardinality(DOMAIN v.m)
    ELSE IF IsArray(v) THEN Len(v.a) ELSE 0

\* Removing l from f leaves the container at the n-th prefix of l empty: it
\* has one entry, which is l itself or a container left empty in turn.
LeftEmpty(f, l, n) ==
    /\ ChildCount(get(f, Prefix(l, n))) = 1
    /\ (n = Len(l) - 1) \/ LeftEmpty(f, l, n + 1)

\* The n-th prefix of l, contained in f, was deleted on the way to g: a field
\* is no longer contained; an array element is gone with its array, or the
\* array is one element shorter.
Deleted(f, g, l, n) ==
    IF l[n].k = "Field"
    THEN ~contains(g, Prefix(l, n))
    ELSE \/ ~contains(g, Prefix(l, n - 1))
         \/ ChildCount(get(g, Prefix(l, n - 1))) < ChildCount(get(f, Prefix(l, n - 1)))

(***************************************************************************)
(* C7.  After remove(P, prune = true) of a contained P, an ancestor        *)
(* container of P is deleted exactly when the removal left it empty: the   *)
(* deletions go up from P and stop at the first ancestor that has other    *)
(* content, or at the root.                                                *)
(***************************************************************************)
C7_PruningCascade ==
    ( /\ op = "remove"
      /\ prune
      /\ WellFormed(lookup)
      /\ contains(before, lookup) )
    => LET P == Resolved(before, lookup)
       IN  \A n \in 1..(Len(P) - 1) :
               Deleted(before, fields, P, n) <=> LeftEmpty(before, P, n)

\* insert(a.b.c, 1) on an empty event, then remove(a.b.c, true): neither a.b
\* nor a is contained.
C7_Witness ==
    /\ op = "remove"
    /\ prune
    /\ lookup = <<Field("a"), Field("b"), Field("c")>>
    /\ DOMAIN before = {"a"}
    /\ LeftEmpty(before, lookup, 1)
    /\ retval = IntV(1)
    /\ ~contains(fields, <<Field("a"), Field("b")>>)
    /\ ~contains(fields, <<Field("a")>>)

(***************************************************************************)
(* C8.  remove(P, prune = false) of a contained P made of Field segments   *)
(* deletes only the value at P: P is no longer contained, every proper     *)
(* prefix of P is still contained, and putting the returned value back at  *)
(* P gives the event as it was.                                            *)
(***************************************************************************)
C8_NoPruneWithoutFlag ==
    ( /\ op = "remove"
      /\ ~prune
      /\ OnlyFields(lookup)
      /\ contains(before, lookup) )
    => /\ ~contains(fields, lookup)
       /\ \A n \in 1..(Len(lookup) - 1) : contains(fields, Prefix(lookup, n))
       /\ insert(fields, lookup, retval).f = before

\* remove(a.b.c, false) of the only leaf: a.b stays, as an empty map.
C8_Witness ==
    /\ op = "remove"
    /\ ~prune
    /\ lookup = <<Field("a"), Field("b"), Field("c")>>
    /\ LeftEmpty(before, lookup, 1)
    /\ retval = IntV(1)
    /\ get(fields, <<Field("a"), Field("b")>>) = MapV(EmptyFields)

(***************************************************************************)
(* C9.  get, get_mut, contains, insert and remove called with a lookup     *)
(* whose first segment is an Index return "not found" (None, or false for  *)
(* contains) and leave the event unchanged.                                *)
(***************************************************************************)
C9_IndexFirstRejected ==
    ( /\ op \in {"get", "get_mut", "contains", "insert", "remove"}
      /\ lookup[1].k = "Index" )
    => /\ retval = (IF op = "contains" THEN BoolR(FALSE) ELSE NONE)
       /\ fields = before

\* An insert of [0].a into an event that has fields.
C9_Witness ==
    /\ op = "insert"
    /\ Len(lookup) = 2
    /\ lookup[1].k = "Index"
    /\ value = IntV(1)
    /\ DOMAIN before # {}
    /\ retval = NONE
    /\ fields = before

(***************************************************************************)
(* C10.  entry(lookup) leaves the event exactly as it was, whatever it     *)
(* returns.                                                                *)
(***************************************************************************)
C10_EntryCreatesNothing ==
    (op = "entry") => (fields = before)

\* entry(a.b.c) on an event that has b but not a: the error "did not exist",
\* and no field a afterwards.
C10_Witness ==
    /\ op = "entry"
    /\ lookup = <<Field("a"), Field("b"), Field("c")>>
    /\ retval = EntryR("ErrDidNotExist")
    /\ DOMAIN before = {"b"}
    /\ fields = before

(***************************************************************************)
(* The results of entry: a cursor (Ok) or one of the three errors.  Panic  *)
(* is neither: the call did not return.                                    *)
(***************************************************************************)
EntryCursors == {EntryR("Occupied"), EntryR("Vacant")}

EntryErrors == {EntryR("ErrNonMap"), EntryR("ErrDidNotExist"), EntryR("ErrArrayIndices")}

\* The positions of l that hold an Index or a Coalesce segment.
NonFieldPositions(l) == {i \in 1..Len(l) : l[i].k # "Field"}

(***************************************************************************)
(* C11.  entry(lookup) of a non-empty lookup with an Index or a Coalesce   *)
(* segment at any position, the first included, returns an error and never *)
(* a cursor; the error is the one for non-field segments unless an earlier *)
(* segment gave the non-map or the missing-field error.  The code does not *)
(* return at all when the segment is the first one: it reaches             *)
(* unreachable!().                                                         *)
(***************************************************************************)
C11_EntryRejectsNonField ==
    ( /\ op = "entry"
      /\ Len(lookup) > 0
      /\ NonFieldPositions(lookup) # {} )
    => /\ retval \in EntryErrors
       /\ LET i == Min(NonFieldPositions(lookup))
          IN  (\A n \in 1..(i - 1) : IsMap(get(before, Prefix(lookup, n))))
                  => retval = EntryR("ErrArrayIndices")

\* entry((a | b)) on an event that has a: the call panics.
C11_Witness ==
    /\ op = "entry"
    /\ lookup[1].k = "Coalesce"
    /\ "a" \in DOMAIN before
    /\ retval = EntryR("Panic")

\* The proper prefixes of the Field-only lookup l that entry cannot step
\* through in f: absent, or holding a value that is no Map.
Impassable(f, l) ==
    {n \in 1..(Len(l) - 1) :
        ~(contains(f, Prefix(l, n)) /\ IsMap(get(f, Prefix(l, n))))}

(***************************************************************************)
(* C12.  As stated: for a lookup of Field segments, entry returns a cursor *)
(* exactly when every proper prefix is contained and holds a Map, occupied *)
(* exactly when the lookup is contained; if some proper prefix is absent   *)
(* the result is the "did not exist" error, and if some proper prefix      *)
(* holds a non-map value it is the "non-map value" error.  The two error   *)
(* cases overlap: below a prefix that holds a scalar every longer prefix   *)
(* is absent, and the error is the "non-map value" one.                    *)
(***************************************************************************)
C12_EntryResultAnyPrefix ==
    (op = "entry" /\ Len(lookup) > 0 /\ OnlyFields(lookup))
    => /\ (retval \in EntryCursors) <=> (Impassable(before, lookup) = {})
       /\ (retval = EntryR("Occupied")) =>  contains(before, lookup)
       /\ (retval = EntryR("Vacant")) => ~contains(before, lookup)
       /\ (\E n \in 1..(Len(lookup) - 1) : ~contains(before, Prefix(lookup, n)))
              => retval = EntryR("ErrDidNotExist")
       /\ (\E n \in 1..(Len(lookup) - 1) :
               /\ contains(before, Prefix(lookup, n))
               /\ ~IsMap(get(before, Prefix(lookup, n))))
              => retval = EntryR("ErrNonMap")

\* C12 (amended).  The same, the error being decided by the shortest proper
\* prefix that is absent or holds a non-map value: "did not exist" when it is
\* absent, "non-map value" when it holds a value that is no Map.
C12_EntryResult ==
    (op = "entry" /\ Len(lookup) > 0 /\ OnlyFields(lookup))
    => IF Impassable(before, lookup) = {}
       THEN retval = EntryR(IF contains(before, lookup) THEN "Occupied" ELSE "Vacant")
       ELSE LET n == Min(Impassable(before, lookup))
            IN  retval = EntryR(IF contains(before, Prefix(lookup, n))
                                THEN "ErrNonMap" ELSE "ErrDidNotExist")

\* entry(a.b.c) on an event where a is a map that holds the integer b: the
\* "non-map value" error, decided by a.b.
C12_Witness ==
    /\ op = "entry"
    /\ lookup = <<Field("a"), Field("b"), Field("c")>>
    /\ get(before, <<Field("a"), Field("b")>>) = IntV(1)
    /\ retval = EntryR("ErrNonMap")

(***************************************************************************)
(* The pre-order of lookups, and the number of nodes of an event.          *)
(***************************************************************************)
RECURSIVE SumSeq(_)
RECURSIVE NodeCount(_)

\* s is before t among the children of one container: the names in key
\* order, the indices ascending.
SegmentBefore(s, t) ==
    \/ /\ s.k = "Field" /\ t.k = "Field"
       /\ \E i, j \in 1..Len(KeyOrder) :
              i < j /\ KeyOrder[i] = s.name /\ KeyOrder[j] = t.name
    \/ /\ s.k = "Index" /\ t.k = "Index"
       /\ s.i < t.i

\* p is before q in pre-order: p is a proper prefix of q (a container before
\* its descendants), or at the first segment where they differ p's is before
\* q's.
PathBefore(p, q) ==
    \/ Len(p) < Len(q) /\ Prefix(q, Len(p)) = p
    \/ \E n \in 1..Len(p) :
           /\ n <= Len(q)
           /\ Prefix(p, n - 1) = Prefix(q, n - 1)
           /\ SegmentBefore(p[n], q[n])

SumSeq(ns) == IF Len(ns) = 0 THEN 0 ELSE Head(ns) + SumSeq(Tail(ns))

\* The number of values in v: v itself and the values it contains.
NodeCount(v) ==
    IF IsMap(v)
    THEN LET ks == SortedKeys(DOMAIN v.m)
         IN  1 + SumSeq([i \in 1..Len(ks) |-> NodeCount(v.m[ks[i]])])
    ELSE IF IsArray(v)
    THEN 1 + SumSeq([i \in 1..Len(v.a) |-> NodeCount(v.a[i])])
    ELSE 1

\* The number of addressable lookups of the event f.
Addressable(f) == NodeCount(MapV(f)) - 1

(***************************************************************************)
(* C13.  keys(only_leaves = false) yields every addressable lookup of the  *)
(* event exactly once, in pre-order: each lookup yielded is contained, as  *)
(* many are yielded as the event has values, and each is before the next   *)
(* in pre-order (fields in key order, a container before its descendants,  *)
(* Map children in key order, Array children in ascending index order).    *)
(***************************************************************************)
C13_KeysPreOrder ==
    (op = "keys" /\ ~retval.leaves)
    => LET ks == retval.ks
       IN  /\ \A i \in 1..Len(ks) : contains(before, ks[i])
           /\ Len(ks) = Addressable(before)
           /\ \A i \in 1..(Len(ks) - 1) : PathBefore(ks[i], ks[i + 1])
           /\ fields = before

\* keys(false) of an event with two fields, a map in an array in the first:
\* a, a[0], a[1], a[1].b, then b.
C13_Witness ==
    /\ op = "keys"
    /\ ~retval.leaves
    /\ retval.ks = << <<Field("a")>>,
                      <<Field("a"), Index(0)>>,
                      <<Field("a"), Index(1)>>,
                      <<Field("a"), Index(1), Field("b")>>,
                      <<Field("b")>> >>

(***************************************************************************)
(* The runs of the tests iteratively_populate_array, _array_reverse, _map  *)
(* and keys_and_pairs: an empty event is populated by inserts of scalars   *)
(* at lookups without coalesce groups, and its keys are read.  populated   *)
(* maps each lookup given to insert to the value last given with it.       *)
(***************************************************************************)
\* Number of inserts of a run.
PopulateOps == 3
\* Largest array index of a run.
PopulateIndex == 2

\* a, b, a.b, a[i], a[1].b, a[1][1]
PopulateLookups ==
    { <<Field("a")>>, <<Field("b")>>, <<Field("a"), Field("b")>>,
      <<Field("a"), Index(1), Field("b")>>,
      <<Field("a"), Index(1), Index(1)>> }
        \cup { <<Field("a"), Index(i)>> : i \in 0..PopulateIndex }

PopulateInsert(l, v) ==
    /\ steps < PopulateOps
    /\ steps' = steps + 1
    /\ op' = "insert"
    /\ lookup' = l
    /\ value' = v
    /\ before' = fields
    /\ LET res == insert(fields, l, v)
       IN  fields' = res.f /\ retval' = res.r
    /\ populated' = MapPut(populated, l, v)
    /\ UNCHANGED <<prune, start, target, inserted, returned>>

PopulateKeys(only_leaves) ==
    /\ op # "keys"
    /\ op' = "keys"
    /\ lookup' = <<>>
    /\ value' = NullV
    /\ before' = fields
    /\ retval' = KeysR(keys(fields, only_leaves), only_leaves)
    /\ fields' = fields
    /\ UNCHANGED <<steps, prune, start, target, inserted, returned, populated>>

PopulateNext ==
    \/ \E l \in PopulateLookups, v \in Values : PopulateInsert(l, v)
    \/ \E only_leaves \in BOOLEAN : PopulateKeys(only_leaves)

PopulateSpec == Init /\ [][PopulateNext]_vars

\* No lookup of S is a proper prefix of another: each addresses a leaf.
Terminal(S) ==
    \A p, q \in S : ~(Len(p) < Len(q) /\ Prefix(q, Len(p)) = p)

\* No two lookups of S address one container as a Map and as an Array.
Compatible(S) ==
    \A p, q \in S :
        \A n \in 1..Len(p) :
            (n <= Len(q) /\ Prefix(p, n - 1) = Prefix(q, n - 1)) => p[n].k = q[n].k

\* The lookups of the sequence ks.
Yielded(ks) == {ks[i] : i \in 1..Len(ks)}

(***************************************************************************)
(* C14.  As stated: after inserts of scalars at a set of terminal lookups  *)
(* into an empty event, keys(only_leaves = true) yields exactly the        *)
(* lookups inserted.  This fails when an insert addressed an array past    *)
(* its end: the slots it skipped hold Null and are yielded as leaves too.  *)
(***************************************************************************)
C14_LeavesAreInsertedExactly ==
    (op = "keys" /\ retval.leaves /\ Terminal(DOMAIN populated))
    => /\ Yielded(retval.ks) = DOMAIN populated
       /\ Len(retval.ks) = Cardinality(DOMAIN populated)

\* C14 (amended).  After inserts of scalars, into an empty event, at lookups
\* of which none is a proper prefix of another and no two address one
\* container with a Field and with an Index, keys(only_leaves = true) yields
\* every lookup inserted exactly once; any other lookup it yields is an array
\* element holding Null, a slot skipped by an insert past the end of the array.
C14_LeavesAreInserted ==
    ( /\ op = "keys"
      /\ retval.leaves
      /\ Terminal(DOMAIN populated)
      /\ Compatible(DOMAIN populated) )
    => /\ DOMAIN populated \subseteq Yielded(retval.ks)
       /\ Len(retval.ks) = Cardinality(Yielded(retval.ks))
       /\ \A p \in Yielded(retval.ks) \ DOMAIN populated :
              p[Len(p)].k = "Index" /\ get(fields, p) = NullV

\* Inserts at b, a[0] and a[1][1]: the leaves are a[0], a[1][0] (a skipped
\* slot), a[1][1] and b.
C14_Witness ==
    /\ op = "keys"
    /\ retval.leaves
    /\ DOMAIN populated = { <<Field("b")>>, <<Field("a"), Index(0)>>,
                            <<Field("a"), Index(1), Index(1)>> }
    /\ retval.ks = << <<Field("a"), Index(0)>>,
                      <<Field("a"), Index(1), Index(0)>>,
                      <<Field("a"), Index(1), Index(1)>>,
                      <<Field("b")>> >>

\* The indices that the lookups of S address in the array at the first n - 1
\* segments of p.
IndicesUsed(S, p, n) ==
    {q[n].i : q \in {r \in S : Len(r) >= n /\ Prefix(r, n - 1) = Prefix(p, n - 1)}}

\* The largest number of the non-empty set S.
Max(S) == CHOOSE i \in S : \A j \in S : j <= i

(***************************************************************************)
(* C15.  Arrays stay dense and inserts do not disturb siblings.  An insert *)
(* that addresses an array past its end makes it one longer than the       *)
(* index, fills the slots it skipped with Null and leaves the elements it  *)
(* had.  After inserts at lookups of which none is a prefix of another (as *)
(* a[2], a[1], a[0]), every lookup inserted holds the value last inserted  *)
(* at it, every array is one longer than the largest index inserted in it, *)
(* and the slots no insert addressed hold Null.                            *)
(***************************************************************************)
C15_ArraysDense ==
    /\ (op = "insert") =>
           \A n \in 2..Len(lookup) :
               LET arr == get(before, Prefix(lookup, n - 1))
                   now == get(fields, Prefix(lookup, n - 1))
               IN  (lookup[n].k = "Index" /\ IsArray(arr) /\ Len(arr.a) <= lookup[n].i)
                   => /\ IsArray(now)
                      /\ Len(now.a) = lookup[n].i + 1
                      /\ \A j \in 1..Len(arr.a) : now.a[j] = arr.a[j]
                      /\ \A j \in (Len(arr.a) + 1)..lookup[n].i : now.a[j] = NullV
    /\ (Terminal(DOMAIN populated) /\ Compatible(DOMAIN populated)) =>
           \A p \in DOMAIN populated :
               /\ get(fields, p) = populated[p]
               /\ \A n \in 2..Len(p) :
                      (p[n].k = "Index") =>
                          LET arr  == get(fields, Prefix(p, n - 1))
                              used == IndicesUsed(DOMAIN populated, p, n)
                          IN  /\ IsArray(arr)
                              /\ Len(arr.a) = Max(used) + 1
                              /\ \A j \in 0..(Len(arr.a) - 1) :
                                     (j \notin used) => arr.a[j + 1] = NullV

\* The third insert of a[2], a[1], a[0]: a[0] is set, and a[1] and a[2] keep
\* their values.
C15_Witness ==
    /\ op = "insert"
    /\ lookup = <<Field("a"), Index(0)>>
    /\ value = IntV(2)
    /\ DOMAIN populated = {<<Field("a"), Index(i)>> : i \in 0..2}
    /\ get(before, <<Field("a")>>) = ArrayV(<<NullV, IntV(1), IntV(2)>>)
    /\ get(fields, <<Field("a")>>) = ArrayV(<<IntV(2), IntV(1), IntV(2)>>)

(***************************************************************************)
(* C16.  For every reachable event and every well-formed lookup (not       *)
(* empty, the first segment a Field or a Coalesce whose alternatives begin *)
(* with Fields), none of get, get_mut, contains, insert, remove, entry and *)
(* index access panics.  The code panics in two places: entry on a first   *)
(* segment that is a Coalesce, and index access on a lookup that is not    *)
(* contained.                                                              *)
(***************************************************************************)
C16_NoPanic ==
    ( /\ op \in {"get", "get_mut", "contains", "insert", "remove", "entry",
                 "index", "index_mut"}
      /\ WellFormed(lookup) )
    => retval \notin {PanicR, EntryR("Panic")}

\* event[a.b] on an event that has a but not a.b: "Key not found.".
C16_Witness ==
    /\ op = "index"
    /\ lookup = <<Field("a"), Field("b")>>
    /\ contains(before, <<Field("a")>>)
    /\ retval = PanicR

(***************************************************************************)
(* C17.  contains(P) is true exactly when get(P) returns a value, a stored *)
(* Null included; get_mut(P) returns a value exactly when get(P) does, and *)
(* it is the same value; none of the three changes the event.              *)
(***************************************************************************)
C17_ContainsIsGetPresence ==
    /\ (op = "contains") =>
           retval = BoolR(IsSome(get(before, lookup))) /\ fields = before
    /\ (op = "get_mut") =>
           retval = get(before, lookup) /\ fields = before
    /\ (op = "get") =>
           retval = get(before, lookup) /\ fields = before

\* contains(a.b) where a.b holds a stored Null: true.
C17_Witness ==
    /\ op = "contains"
    /\ lookup = <<Field("a"), Field("b")>>
    /\ get(before, lookup) = NullV
    /\ retval = BoolR(TRUE)
    /\ fields = before

(***************************************************************************)
(* C18.  As stated: for a lookup P without coalesce group, insert(P, V)    *)
(* returns the value get(P) held just before (nothing if P was absent) and *)
(* replaces it, so that after insert(P, V1) a second insert(P, V2) returns *)
(* V1 and leaves get(P) = V2.  The value returned is always the one held,  *)
(* but nothing is stored, and the second call returns nothing, when insert *)
(* cannot descend along P (a prefix of P holds a scalar or a container of  *)
(* the other kind).                                                        *)
(***************************************************************************)
C18_InsertReturnsReplacedAnyLookup ==
    (op = "insert" /\ WellFormed(lookup) /\ ~HasCoalesce(lookup))
    => /\ retval = get(before, lookup)
       /\ get(fields, lookup) = value

\* C18 (amended).  The same for a lookup P along which every proper prefix
\* that is contained holds a Map where the next segment is a Field and an
\* Array where it is an Index; for every other lookup without coalesce group
\* insert still returns what get(P) held, which is nothing.
C18_InsertReturnsReplaced ==
    (op = "insert" /\ WellFormed(lookup) /\ ~HasCoalesce(lookup))
    => /\ retval = get(before, lookup)
       /\ CanDescend(before, lookup) => get(fields, lookup) = value
       /\ contains(before, lookup) => get(fields, lookup) = value

\* The second of two inserts at a[1].b: it returns the 1 of the first and
\* leaves 2.
C18_Witness ==
    /\ op = "insert"
    /\ lookup = <<Field("a"), Index(1), Field("b")>>
    /\ get(before, lookup) = IntV(1)
    /\ value = IntV(2)
    /\ retval = IntV(1)
    /\ get(fields, lookup) = IntV(2)

RECURSIVE DecidingSegment(_)
\* The segment that decides what insert creates for an absent field followed
\* by the lookup l: the first segment of l, looked for in the first
\* alternative of a coalesce group; NONE when there is none.
DecidingSegment(l) ==
    IF Len(l) = 0 THEN NONE
    ELSE IF l[1].k = "Coalesce"
         THEN IF Len(l[1].alts) = 0 THEN NONE ELSE DecidingSegment(l[1].alts[1])
         ELSE l[1]

\* What insert(lookup, value) made of a root field that was absent: an Array
\* when the deciding segment is an Index, a Map when it is a Field, and
\* nothing when there is no deciding segment.
VivifiedAsDecided ==
    LET name == lookup[1].name
        d    == DecidingSegment(Tail(lookup))
    IN  IF d = NONE
        THEN retval = NONE /\ fields = before
        ELSE /\ name \in DOMAIN fields
             /\ (d.k = "Index") => IsArray(fields[name])
             /\ (d.k = "Field") => IsMap(fields[name])

(***************************************************************************)
(* C19.  As stated: when insert descends through a root field that is      *)
(* absent, the container created for it is an Array if the next segment is *)
(* an Index, a Map if it is a Field, and for a Coalesce what the first     *)
(* segment of its first alternative decides (through nested groups); with  *)
(* no such segment insert returns nothing and creates no field.  A field   *)
(* that exists is never replaced by a fresh container.  The last sentence  *)
(* fails for a field that holds Null: insert replaces the Null by the      *)
(* container the next segment asks for.                                    *)
(***************************************************************************)
C19_VivifiedContainerAnyField ==
    (op = "insert" /\ Len(lookup) >= 2 /\ lookup[1].k = "Field")
    => IF lookup[1].name \notin DOMAIN before
       THEN VivifiedAsDecided
       ELSE /\ lookup[1].name \in DOMAIN fields
            /\ fields[lookup[1].name].t = before[lookup[1].name].t

\* C19 (amended).  The same, the last sentence for a field that exists and
\* holds a value other than Null.
C19_VivifiedContainer ==
    (op = "insert" /\ Len(lookup) >= 2 /\ lookup[1].k = "Field")
    => IF lookup[1].name \notin DOMAIN before
       THEN VivifiedAsDecided
       ELSE /\ lookup[1].name \in DOMAIN fields
            /\ (before[lookup[1].name] # NullV)
                   => fields[lookup[1].name].t = before[lookup[1].name].t

\* insert(b.(([0] | c) | c), 1) into an event without b: b is an array, as the
\* Index in the nested group decides.
C19_Witness ==
    /\ op = "insert"
    /\ Len(lookup) = 2
    /\ lookup[2].k = "Coalesce"
    /\ Len(lookup[2].alts) = 2
    /\ lookup[2].alts[1][1].k = "Coalesce"
    /\ DOMAIN before = {"a"}
    /\ value = IntV(1)
    /\ get(fields, <<Field("b")>>) = ArrayV(<<IntV(1)>>)

\* Some proper prefix of the lookup l is contained in f and holds a value of
\* the given kinds of scalar, or a Map where l goes on with an Index, or an
\* Array where l goes on with a Field.
Blocked(f, l, scalars) ==
    \E n \in 1..(Len(l) - 1) :
        LET at == get(f, Prefix(l, n))
        IN  \/ at.t \in scalars
            \/ IsMap(at) /\ l[n + 1].k = "Index"
            \/ IsArray(at) /\ l[n + 1].k = "Field"

(***************************************************************************)
(* C20.  As stated: insert(P, V), where some proper prefix of P addresses  *)
(* an existing scalar, or a Map where P continues with an Index, or an     *)
(* Array where P continues with a Field, returns nothing and leaves the    *)
(* event unchanged.  This fails for the scalar Null: insert replaces it by *)
(* a container and stores V.                                               *)
(***************************************************************************)
C20_InsertBlockedAnyScalar ==
    ( /\ op = "insert"
      /\ WellFormed(lookup)
      /\ ~HasCoalesce(lookup)
      /\ Blocked(before, lookup, {"Null", "Integer"}) )
    => retval = NONE /\ fields = before

\* C20 (amended).  The same for a scalar other than Null.
C20_InsertBlocked ==
    ( /\ op = "insert"
      /\ WellFormed(lookup)
      /\ ~HasCoalesce(lookup)
      /\ Blocked(before, lookup, {"Integer"}) )
    => retval = NONE /\ fields = before

\* insert(a.b.c, 2) where a.b holds the integer 1: nothing is returned and
\* a.b still holds 1.
C20_Witness ==
    /\ op = "insert"
    /\ lookup = <<Field("a"), Field("b"), Field("c")>>
    /\ value = IntV(2)
    /\ get(before, <<Field("a"), Field("b")>>) = IntV(1)
    /\ retval = NONE
    /\ fields = before

(***************************************************************************)
(* C21.  A remove that finds nothing has no side effects: remove(P, prune) *)
(* of a path P that is not contained, with either prune value, returns     *)
(* nothing and leaves the event unchanged; a field or element holding a    *)
(* Null the caller stored is not deleted when P tries to descend through   *)
(* it.  The prune check of the Field arm runs whether or not anything was  *)
(* removed, and deletes a field that holds Null.                           *)
(***************************************************************************)
C21_RemoveNotFoundNoEffect ==
    (op = "remove" /\ ~contains(before, lookup))
    => retval = NONE /\ fields = before

\* remove(a.b, true) on an event whose field a holds Null: nothing is found
\* and a is deleted while another field stays.
C21_Witness ==
    /\ op = "remove"
    /\ prune
    /\ lookup = <<Field("a"), Field("b")>>
    /\ MapGet(before, "a") = NullV
    /\ ~contains(before, lookup)
    /\ retval = NONE
    /\ "a" \notin DOMAIN fields
    /\ "b" \in DOMAIN fields

(***************************************************************************)
(* Vocabulary of the leaves-only enumeration.                              *)
(***************************************************************************)
RECURSIVE LeafCount(_)

\* A scalar: a value that is neither a Map nor an Array (Null included).
IsLeaf(v) == IsSome(v) /\ ~IsMap(v) /\ ~IsArray(v)

\* The number of scalars in v.
LeafCount(v) ==
    IF IsMap(v)
    THEN LET ks == SortedKeys(DOMAIN v.m)
         IN  SumSeq([i \in 1..Len(ks) |-> LeafCount(v.m[ks[i]])])
    ELSE IF IsArray(v)
    THEN SumSeq([i \in 1..Len(v.a) |-> LeafCount(v.a[i])])
    ELSE 1

\* The lookups of ks, in their order, that address a scalar of the event f.
ScalarPaths(f, ks) == SelectSeq(ks, LAMBDA p : IsLeaf(get(f, p)))

(***************************************************************************)
(* C22.  Leaves-only mode is the scalar filter of the full enumeration:    *)
(* for every event keys(only_leaves = true) is exactly the subsequence of  *)
(* keys(only_leaves = false) made of the lookups whose value is a scalar   *)
(* (Null included); no Map or Array lookup is yielded in leaves-only mode  *)
(* and no scalar lookup is left out in either mode.  Checked at every keys *)
(* call against the enumeration in the other mode.                         *)
(***************************************************************************)
C22_LeavesAreScalarFilter ==
    op = "keys"
    => LET all    == IF retval.leaves THEN keys(before, FALSE) ELSE retval.ks
           leaves == IF retval.leaves THEN retval.ks ELSE keys(before, TRUE)
       IN  /\ leaves = ScalarPaths(before, all)
           /\ \A i \in 1..Len(leaves) : IsLeaf(get(before, leaves[i]))
           /\ Len(leaves) = LeafCount(MapV(before))
           /\ Len(ScalarPaths(before, all)) = LeafCount(MapV(before))

\* keys(true) of an event holding an array with a Null slot and a map with
\* an Integer: the two scalars are yielded, the containers are not.
C22_Witness ==
    /\ op = "keys"
    /\ retval.leaves
    /\ Len(retval.ks) = 2
    /\ Len(keys(before, FALSE)) > 3
    /\ \E i \in 1..Len(retval.ks) : get(before, retval.ks[i]) = NullV
    /\ \E i \in 1..Len(retval.ks) : get(before, retval.ks[i]) = IntV(1)
    /\ \E n \in DOMAIN before : IsArray(before[n])

(***************************************************************************)
(* C23.  pairs agrees with keys and get: for every event and both modes,   *)
(* pairs(only_leaves) yields the same lookups in the same order as         *)
(* keys(only_leaves), and each value yielded is the one get returns for    *)
(* its lookup; hence every lookup enumerated is contained.  pairs leaves   *)
(* the event unchanged.                                                    *)
(***************************************************************************)
C23_PairsAgreeWithKeysAndGet ==
    op = "pairs"
    => LET ps == retval.ps
       IN  /\ [i \in 1..Len(ps) |-> ps[i].l] = keys(before, retval.leaves)
           /\ \A i \in 1..Len(ps) :
                  /\ ps[i].v = get(before, ps[i].l)
                  /\ contains(before, ps[i].l)
           /\ fields = before

\* pairs(false) yielding a container with its own value and, further on, an
\* Integer two segments below a field.
C23_Witness ==
    /\ op = "pairs"
    /\ ~retval.leaves
    /\ Len(retval.ps) >= 3
    /\ \E i \in 1..Len(retval.ps) :
           IsArray(retval.ps[i].v) /\ Len(retval.ps[i].l) = 1
    /\ \E i \in 1..Len(retval.ps) :
           retval.ps[i].v = IntV(2) /\ Len(retval.ps[i].l) = 3

(***************************************************************************)
(* The frame properties are about what insert and remove leave alone; they *)
(* are checked on the events built by those two operations, which are the  *)
(* events of Spec (the other operations change no field).                  *)
(***************************************************************************)
MutationNext ==
    \/ \E l \in Lookups, v \in Values : Insert(l, v)
    \/ \E l \in Lookups, p \in BOOLEAN : Remove(l, p)

MutationSpec == Init /\ [][MutationNext]_vars

(***************************************************************************)
(* Vocabulary of the frame properties.                                     *)
(***************************************************************************)
\* The concrete lookups contained in the event f.
Contained(f) ==
    LET ks == keys(f, FALSE)
    IN  {ks[i] : i \in 1..Len(ks)}

IsPrefix(p, q) == Len(p) <= Len(q) /\ Prefix(q, Len(p)) = p

IsProperPrefix(p, q) == Len(p) < Len(q) /\ IsPrefix(p, q)

\* The call was an insert of a lookup whose first segment is a coalesce group.
CoalesceFirstInsert ==
    op = "insert" /\ Len(lookup) > 0 /\ lookup[1].k = "Coalesce"

(***************************************************************************)
(* C24.  As stated: an insert through a coalesce never overwrites; for a   *)
(* lookup P whose first segment is a coalesce group insert(P, V) returns   *)
(* nothing, and every concrete lookup that was contained before the call   *)
(* still yields the same value afterwards.  The second half fails: the     *)
(* value goes to a vacant candidate, and the containers on the way to it   *)
(* change by receiving it; a Null on the way is replaced by a container.   *)
(***************************************************************************)
C24_CoalesceInsertKeepsEveryValue ==
    CoalesceFirstInsert
    => /\ retval = NONE
       /\ \A p \in Contained(before) : get(fields, p) = get(before, p)

\* C24 (amended).  insert(P, V), P starting with a coalesce group, returns
\* nothing; every concrete lookup contained before the call is contained
\* afterwards, and yields the same value unless it is a proper prefix of the
\* candidate lookup selected (the first one not contained) and held a Map,
\* an Array or Null; a scalar other than Null is never changed.
C24_CoalesceInsertKeepsScalars ==
    CoalesceFirstInsert
    => /\ retval = NONE
       /\ \A p \in Contained(before) :
              /\ contains(fields, p)
              /\ get(fields, p) # get(before, p)
                 => /\ WellFormed(lookup)
                    /\ VacantAlternatives(before, lookup) # {}
                    /\ IsProperPrefix(p,
                           Candidate(lookup, Min(VacantAlternatives(before, lookup))))
                    /\ ~IsLeaf(get(before, p)) \/ get(before, p) = NullV

\* insert((a | b).c, 2) into an event where a is a map holding b = 1: the
\* value goes to a.c, a.b keeps its value and nothing is returned.
C24_Witness ==
    /\ CoalesceFirstInsert
    /\ Len(lookup) = 2
    /\ get(before, <<Field("a"), Field("b")>>) = IntV(1)
    /\ value = IntV(2)
    /\ retval = NONE
    /\ get(fields, <<Field("a"), Field("c")>>) = IntV(2)
    /\ get(fields, <<Field("a"), Field("b")>>) = IntV(1)

\* The call was an insert, or a remove without prune, of a coalesce-free
\* lookup.
SinglePathCall ==
    /\ \/ op = "insert"
       \/ op = "remove" /\ ~prune
    /\ Len(lookup) > 0
    /\ ~HasCoalesce(lookup)

\* Neither of p and q is a prefix of the other.
Unrelated(p, q) == ~IsPrefix(p, q) /\ ~IsPrefix(q, p)

\* q goes through an element of the array from which remove(p) took an
\* earlier element: p is contained, ends with an Index, and q continues the
\* lookup of that array with a larger Index.
Shifted(f, p, q) ==
    /\ op = "remove"
    /\ contains(f, p)
    /\ p[Len(p)].k = "Index"
    /\ Len(q) >= Len(p)
    /\ Prefix(q, Len(p) - 1) = Prefix(p, Len(p) - 1)
    /\ q[Len(p)].k = "Index"
    /\ q[Len(p)].i > p[Len(p)].i

\* q with the Index at position n lowered by one.
ShiftDown(q, n) == [q EXCEPT ![n] = Index(q[n].i - 1)]

(***************************************************************************)
(* C25.  As stated: single-path frame; for coalesce-free lookups P and Q   *)
(* of which neither is a prefix of the other, insert(P, V) and             *)
(* remove(P, false) leave get(Q) unchanged whenever Q was contained before *)
(* the call, array siblings of the inserted or removed element included.   *)
(* This fails for remove: taking an element out of an array moves the      *)
(* later elements down by one index.                                       *)
(***************************************************************************)
C25_SinglePathFrameAnySibling ==
    SinglePathCall
    => \A q \in Contained(before) :
           Unrelated(lookup, q) => get(fields, q) = get(before, q)

\* C25 (amended).  For coalesce-free lookups P and Q of which neither is a
\* prefix of the other and Q contained before the call: insert(P, V) leaves
\* get(Q) unchanged, array siblings of the inserted element included;
\* remove(P, false) leaves get(Q) unchanged unless P was contained, ends with
\* an Index and Q goes through a later element of the same array, in which
\* case the value get(Q) held is found one index lower.
C25_SinglePathFrame ==
    SinglePathCall
    => \A q \in Contained(before) :
           Unrelated(lookup, q)
           => IF Shifted(before, lookup, q)
              THEN get(fields, ShiftDown(q, Len(lookup))) = get(before, q)
              ELSE get(fields, q) = get(before, q)

\* remove(a[1], false) from a = [1, 2]: the element is returned and its
\* sibling a[0] keeps its value.
C25_Witness ==
    /\ op = "remove"
    /\ ~prune
    /\ lookup = <<Field("a"), Index(1)>>
    /\ get(before, <<Field("a"), Index(0)>>) = IntV(1)
    /\ retval = IntV(2)
    /\ Unrelated(lookup, <<Field("a"), Index(0)>>)
    /\ get(fields, <<Field("a"), Index(0)>>) = IntV(1)
    /\ ~contains(fields, lookup)

====
